---------------------------- MODULE Spec2Model ----------------------------
(***************************************************************************)
(* Vendor master-data service (be-ap-vendors): the vendors table with its  *)
(* constraints, the repository statements that read and write it, and the *)
(* service operations that sequence those statements.  Every repository    *)
(* call is one SQL statement and is one atomic step; a service operation   *)
(* that issues several statements is several steps, so that calls of       *)
(* different requests interleave between statements.                       *)
(*                                                                         *)
(* Strings whose case or length the code inspects (vendor_code, country,   *)
(* currency, vendor_type, status) are sequences of one-character strings.  *)
(* An optional value (a Go pointer, a nullable column) is a set with at    *)
(* most one element: {} is nil / NULL.                                     *)
(***************************************************************************)
EXTENDS Integers, Sequences, FiniteSets, TLC

VARIABLES
    vendors,    \* the rows of table vendors
    nextId,     \* the next id the store hands out (uuid_generate_v4: never reused)
    contacts,   \* the rows of table vendor_contacts
    nextContactId, \* the next id the store hands out to a contact
    pc,         \* per request slot: the statement the running call issues next
    call,       \* per request slot: the running (or last) call, its request and its in-memory vendor
    res,        \* per request slot: what the last finished call returned
    ledger,     \* history: per vendor id, the sum of the deltas of the UpdateBalance calls that succeeded
    calls,      \* history: the number of calls started so far
    faults      \* history: the number of store calls that failed with an error other than "no rows"

vars == <<vendors, nextId, contacts, nextContactId, pc, call, res, ledger, calls, faults>>

---------------------------------------------------------------------------
(* Bounds of the model *)

\* calls the request slots start, all together, before the model stops
MaxCalls == 3

\* every vendor is made by a call, so the store hands out at most MaxCalls ids
VendorIds == 1..MaxCalls

Procs == {"p1", "p2"}
Entities == {"e1", "e2"}

---------------------------------------------------------------------------
(* strings.ToUpper / strings.ToLower on ASCII letters *)

Lowers == <<"a","b","c","d","e","f","g","h","i","j","k","l","m",
            "n","o","p","q","r","s","t","u","v","w","x","y","z">>
Uppers == <<"A","B","C","D","E","F","G","H","I","J","K","L","M",
            "N","O","P","Q","R","S","T","U","V","W","X","Y","Z">>

IndexIn(c, alphabet) ==
    IF \E i \in 1..Len(alphabet) : alphabet[i] = c
    THEN CHOOSE i \in 1..Len(alphabet) : alphabet[i] = c
    ELSE 0

UpperChar(c) == IF IndexIn(c, Lowers) > 0 THEN Uppers[IndexIn(c, Lowers)] ELSE c
LowerChar(c) == IF IndexIn(c, Uppers) > 0 THEN Lowers[IndexIn(c, Uppers)] ELSE c

ToUpper(s) == [i \in 1..Len(s) |-> UpperChar(s[i])]
ToLower(s) == [i \in 1..Len(s) |-> LowerChar(s[i])]


---------------------------------------------------------------------------
(* The store: enum types, table vendors and its constraints (migration) *)

Str_supplier == <<"s","u","p","p","l","i","e","r">>
Str_contractor == <<"c","o","n","t","r","a","c","t","o","r">>
Str_service_provider == <<"s","e","r","v","i","c","e","_","p","r","o","v","i","d","e","r">>
Str_consultant == <<"c","o","n","s","u","l","t","a","n","t">>
Str_utility == <<"u","t","i","l","i","t","y">>

Str_active == <<"a","c","t","i","v","e">>
Str_inactive == <<"i","n","a","c","t","i","v","e">>
Str_suspended == <<"s","u","s","p","e","n","d","e","d">>
Str_pending_approval == <<"p","e","n","d","i","n","g","_","a","p","p","r","o","v","a","l">>

\* CREATE TYPE vendor_type AS ENUM (...)
vendor_type_enum == {Str_supplier, Str_contractor, Str_service_provider, Str_consultant, Str_utility}
\* CREATE TYPE vendor_status AS ENUM (...)
vendor_status_enum == {Str_active, Str_inactive, Str_suspended, Str_pending_approval}

\* country VARCHAR(2), currency VARCHAR(3): a longer value is refused, a shorter one is stored
CountryWidth == 2
CurrencyWidth == 3

\* CONSTRAINT vendors_credit_limit_check CHECK (credit_limit IS NULL OR credit_limit >= 0)
vendors_credit_limit_check(row) == \A l \in row.credit_limit : l >= 0

\* CONSTRAINT vendors_current_balance_check CHECK (current_balance >= 0)
BalanceCheckBroken(row) == TRUE
vendors_current_balance_check(row) == row.current_balance >= 0

\* CONSTRAINT vendors_entity_code_unique UNIQUE (entity_id, vendor_code): may `row` join `rows`?
UniqueBroken(row, rows) == TRUE
vendors_entity_code_unique(row, rows) ==
    \A r \in rows : ~(r.entity_id = row.entity_id /\ r.vendor_code = row.vendor_code)

\* the column types a row must fit: the enum casts of the statements and the VARCHAR widths
ColumnsFit(row) ==
    /\ row.vendor_type \in vendor_type_enum
    /\ row.status \in vendor_status_enum
    /\ Len(row.country) <= CountryWidth
    /\ Len(row.currency) <= CurrencyWidth

\* the store accepts `row` beside the other rows `rows`
RowAccepted(row, rows) ==
    /\ ColumnsFit(row)
    /\ vendors_credit_limit_check(row)
    /\ vendors_current_balance_check(row)
    /\ vendors_entity_code_unique(row, rows)

Str_primary == <<"p","r","i","m","a","r","y">>
Str_billing == <<"b","i","l","l","i","n","g">>
Str_shipping == <<"s","h","i","p","p","i","n","g">>
Str_technical == <<"t","e","c","h","n","i","c","a","l">>
Str_other == <<"o","t","h","e","r">>

\* CREATE TYPE contact_type AS ENUM (...)
contact_type_enum == {Str_primary, Str_billing, Str_shipping, Str_technical, Str_other}

\* vendor_id UUID NOT NULL REFERENCES vendors(id): the contact's vendor is a row of `vs`
vendor_contacts_vendor_id_fkey(row, vs) == \E v \in vs : v.id = row.vendor_id

\* CONSTRAINT vendor_contacts_vendor_type_unique UNIQUE (vendor_id, contact_type, email): may
\* `row` join `rows`?  email is nullable, and a UNIQUE constraint takes two NULLs as
\* different values, so two rows collide only when both carry an email
vendor_contacts_vendor_type_unique(row, rows) ==
    \A r \in rows : ~( /\ r.vendor_id = row.vendor_id
                       /\ r.contact_type = row.contact_type
                       /\ r.email # {} /\ r.email = row.email )

\* the store accepts the contact `row` beside the contacts `rows` when the vendors are `vs`
ContactAccepted(row, rows, vs) ==
    /\ row.contact_type \in contact_type_enum
    /\ vendor_contacts_vendor_id_fkey(row, vs)
    /\ vendor_contacts_vendor_type_unique(row, rows)

\* vendor_contacts.vendor_id REFERENCES vendors(id) ON DELETE CASCADE: the contacts `cs`
\* that are left when the vendors are `vs`
NoCascade(vs, cs) == cs
CascadeContacts(vs, cs) == {c \in cs : \E v \in vs : v.id = c.vendor_id}

---------------------------------------------------------------------------
(* VendorRepository: each operator is one SQL statement on the rows `vs`. *)
(* A statement's result is [err, vendors]: the error code it returns      *)
(* ("OK" is nil) and the rows after it.                                   *)

\* SELECT ... WHERE id = $1 AND entity_id = $2: the row, or {} (pgx.ErrNoRows -> NotFound)
GetByIDAnyEntity(id, entityID, vs) == {r \in vs : r.id = id}
GetByID(id, entityID, vs) == {r \in vs : r.id = id /\ r.entity_id = entityID}

\* SELECT ... WHERE vendor_code = $1 AND entity_id = $2: compares the code as given
GetByCode(code, entityID, vs) == {r \in vs : r.vendor_code = code /\ r.entity_id = entityID}

\* INSERT INTO vendors (...) RETURNING id: current_balance and updated_by are not in the
\* column list and take their defaults (0, NULL); any store error is wrapped as Internal
InsertedRow(vendor, id) ==
    [id |-> id, entity_id |-> vendor.entity_id, vendor_code |-> vendor.vendor_code,
     vendor_name |-> vendor.vendor_name, vendor_type |-> vendor.vendor_type,
     status |-> vendor.status, country |-> vendor.country, currency |-> vendor.currency,
     credit_limit |-> vendor.credit_limit, current_balance |-> 0,
     created_by |-> vendor.created_by, updated_by |-> {}]

Create(vendor, id, vs) ==
    IF RowAccepted(InsertedRow(vendor, id), vs)
    THEN [err |-> "OK", vendors |-> vs \cup {InsertedRow(vendor, id)}]
    ELSE [err |-> "Internal", vendors |-> vs]

\* UPDATE vendors SET vendor_code = $3, ... , updated_by = $32 WHERE id = $1 AND entity_id = $2:
\* the SET list has neither current_balance nor created_by
UpdatedRowWithBalance(old, vendor) ==
    [old EXCEPT !.vendor_code = vendor.vendor_code, !.vendor_name = vendor.vendor_name,
                !.vendor_type = vendor.vendor_type, !.status = vendor.status,
                !.country = vendor.country, !.currency = vendor.currency,
                !.credit_limit = vendor.credit_limit, !.updated_by = vendor.updated_by,
                !.current_balance = vendor.current_balance]
UpdatedRowWithCreator(old, vendor) ==
    [old EXCEPT !.vendor_code = vendor.vendor_code, !.vendor_name = vendor.vendor_name,
                !.vendor_type = vendor.vendor_type, !.status = vendor.status,
                !.country = vendor.country, !.currency = vendor.currency,
                !.credit_limit = vendor.credit_limit, !.updated_by = vendor.updated_by,
                !.created_by = vendor.updated_by]
UpdatedRow(old, vendor) ==
    [old EXCEPT !.vendor_code = vendor.vendor_code, !.vendor_name = vendor.vendor_name,
                !.vendor_type = vendor.vendor_type, !.status = vendor.status,
                !.country = vendor.country, !.currency = vendor.currency,
                !.credit_limit = vendor.credit_limit, !.updated_by = vendor.updated_by]

Update(vendor, vs) ==
    LET hit == GetByID(vendor.id, vendor.entity_id, vs) IN
    IF hit = {} THEN [err |-> "NotFound", vendors |-> vs]
    ELSE LET old == CHOOSE r \in hit : TRUE
             new == UpdatedRow(old, vendor)
         IN IF RowAccepted(new, vs \ {old})
            THEN [err |-> "OK", vendors |-> (vs \ {old}) \cup {new}]
            ELSE [err |-> "Internal", vendors |-> vs]

\* DELETE FROM vendors WHERE id = $1 AND entity_id = $2; no row affected -> NotFound
Delete(id, entityID, vs) ==
    IF GetByID(id, entityID, vs) = {}
    THEN [err |-> "NotFound", vendors |-> vs]
    ELSE [err |-> "OK", vendors |-> vs \ GetByID(id, entityID, vs)]

\* UPDATE vendors SET current_balance = current_balance + $3 WHERE id = $1 AND entity_id = $2
BalanceSet(old, amount) == [old EXCEPT !.current_balance = amount]
BalanceClamped(old, amount) ==
    [old EXCEPT !.current_balance = IF old.current_balance + amount < 0 THEN 0 ELSE old.current_balance + amount]
BalanceAdded(old, amount) == [old EXCEPT !.current_balance = old.current_balance + amount]

UpdateBalance(vendorID, entityID, amount, vs) ==
    LET hit == GetByID(vendorID, entityID, vs) IN
    IF hit = {} THEN [err |-> "NotFound", vendors |-> vs]
    ELSE LET old == CHOOSE r \in hit : TRUE
             new == BalanceAdded(old, amount)
         IN IF RowAccepted(new, vs \ {old})
            THEN [err |-> "OK", vendors |-> (vs \ {old}) \cup {new}]
            ELSE [err |-> "Internal", vendors |-> vs]

\* ValidateVendor: GetByID, then the status and credit-limit tests; [valid, reason, err].
\* A reason is the message's fixed text followed by the values fmt.Sprintf puts into it.
OverLimitStrict(vendor) == \E l \in vendor.credit_limit : vendor.current_balance > l
OverLimit(vendor) == \E l \in vendor.credit_limit : vendor.current_balance >= l

ValidateVendor(vendorID, entityID, vs) ==
    LET hit == GetByID(vendorID, entityID, vs) IN
    IF hit = {} THEN [valid |-> FALSE, reason |-> <<"vendor not found">>, err |-> "NotFound"]
    ELSE LET vendor == CHOOSE r \in hit : TRUE IN
         IF vendor.status # Str_active
         THEN [valid |-> FALSE, err |-> "OK",
               reason |-> <<"vendor status is '%s', must be active", vendor.status>>]
         ELSE IF OverLimit(vendor)
         THEN [valid |-> FALSE, err |-> "OK",
               reason |-> <<"vendor has exceeded credit limit: balance=%d, limit=%d",
                            vendor.current_balance, CHOOSE l \in vendor.credit_limit : TRUE>>]
         ELSE [valid |-> TRUE, reason |-> <<>>, err |-> "OK"]

\* SELECT ... FROM vendor_contacts WHERE vendor_id = $1: the statement names no entity
GetContacts(vendorID, cs) == {c \in cs : c.vendor_id = vendorID}

\* INSERT INTO vendor_contacts (...) RETURNING id: any store error is wrapped as Internal;
\* the result is [err, contacts]
InsertedContact(contact, id) == [contact EXCEPT !.id = id]

AddContact(contact, id, cs, vs) ==
    IF ContactAccepted(InsertedContact(contact, id), cs, vs)
    THEN [err |-> "OK", contacts |-> cs \cup {InsertedContact(contact, id)}]
    ELSE [err |-> "Internal", contacts |-> cs]

\* List: the WHERE clause the code assembles.  status and vendorType are optional; each
\* filter that is present adds one more AND condition, and activeOnly adds status = 'active'
ListMatches(entityID, status, vendorType, activeOnly, vs) ==
    {r \in vs : /\ r.entity_id = entityID
                /\ \A st \in status : r.status = st
                /\ \A t \in vendorType : r.vendor_type = t
                /\ activeOnly => r.status = Str_active}

\* the casts $n::vendor_status and $n::vendor_type, and LIMIT / OFFSET, refuse these arguments
ListRefused(status, vendorType, limit, offset) ==
    \/ \E st \in status : st \notin vendor_status_enum
    \/ \E t \in vendorType : t \notin vendor_type_enum
    \/ limit < 0
    \/ offset < 0

\* the number of rows LIMIT limit OFFSET offset leaves of n rows
PageLen(n, limit, offset) ==
    LET rest == IF n - offset < 0 THEN 0 ELSE n - offset IN
    IF limit < rest THEN limit ELSE rest

\* ORDER BY vendor_name LIMIT $n OFFSET $m: the order among vendors of one name is not
\* fixed by the statement, so the page is any PageLen rows that respect the order of the
\* names; every vendor of this model carries the same name
ListPages(matches, limit, offset) ==
    {rows \in SUBSET matches : Cardinality(rows) = PageLen(Cardinality(matches), limit, offset)}

---------------------------------------------------------------------------
(* VendorService: requests, validation, and the in-memory vendor *)

\* validTypes of CreateVendor, and the same five values compared one by one in UpdateVendor
validTypes == {Str_supplier, Str_contractor, Str_service_provider, Str_consultant, Str_utility}
\* the four values UpdateVendor compares the lower-cased status with
validStatuses == {Str_active, Str_inactive, Str_suspended, Str_pending_approval}

CreateInvalidFieldNoCountry(req) ==
    IF ToLower(req.vendor_type) \notin validTypes THEN "vendor_type"
    ELSE IF Len(req.currency) # 3 THEN "currency"
    ELSE IF \E l \in req.credit_limit : l < 0 THEN "credit_limit"
    ELSE "none"

\* CreateVendor's checks after the uniqueness pre-check, in the order of the code
CreateInvalidField(req) ==
    IF ToLower(req.vendor_type) \notin validTypes THEN "vendor_type"
    ELSE IF Len(req.currency) # 3 THEN "currency"
    ELSE IF \E l \in req.credit_limit : l < 0 THEN "credit_limit"
    ELSE IF Len(req.country) # 2 THEN "country"
    ELSE "none"

\* the repository.Vendor that CreateVendor builds from the request
NewVendorRaw(req) ==
    [id |-> 0, entity_id |-> req.entity_id, vendor_code |-> req.vendor_code,
     vendor_name |-> req.vendor_name, vendor_type |-> req.vendor_type,
     status |-> Str_pending_approval, country |-> req.country,
     currency |-> req.currency, credit_limit |-> req.credit_limit,
     current_balance |-> 0, created_by |-> {req.created_by}, updated_by |-> {}]
NewVendorActive(req) ==
    [id |-> 0, entity_id |-> req.entity_id, vendor_code |-> ToUpper(req.vendor_code),
     vendor_name |-> req.vendor_name, vendor_type |-> ToLower(req.vendor_type),
     status |-> Str_active, country |-> ToUpper(req.country),
     currency |-> ToUpper(req.currency), credit_limit |-> req.credit_limit,
     current_balance |-> 0, created_by |-> {req.created_by}, updated_by |-> {}]
NewVendor(req) ==
    [id |-> 0, entity_id |-> req.entity_id, vendor_code |-> ToUpper(req.vendor_code),
     vendor_name |-> req.vendor_name, vendor_type |-> ToLower(req.vendor_type),
     status |-> Str_pending_approval, country |-> ToUpper(req.country),
     currency |-> ToUpper(req.currency), credit_limit |-> req.credit_limit,
     current_balance |-> 0, created_by |-> {req.created_by}, updated_by |-> {}]

UpdateInvalidFieldNoStatus(req) ==
    IF ToLower(req.vendor_type) \notin validTypes THEN "vendor_type"
    ELSE IF \E l \in req.credit_limit : l < 0 THEN "credit_limit"
    ELSE "none"

\* UpdateVendor's checks after the code lookup, in the order of the code
UpdateInvalidField(req) ==
    IF ToLower(req.vendor_type) \notin validTypes THEN "vendor_type"
    ELSE IF ToLower(req.status) \notin validStatuses THEN "status"
    ELSE IF \E l \in req.credit_limit : l < 0 THEN "credit_limit"
    ELSE "none"

\* the fetched vendor after UpdateVendor has overwritten its fields from the request
Overwritten(vendor, req) ==
    [vendor EXCEPT !.vendor_code = ToUpper(req.vendor_code), !.vendor_name = req.vendor_name,
                   !.vendor_type = ToLower(req.vendor_type), !.status = ToLower(req.status),
                   !.country = ToUpper(req.country), !.currency = ToUpper(req.currency),
                   !.credit_limit = req.credit_limit, !.updated_by = {req.updated_by}]

\* validTypes of AddVendorContact
validContactTypes == {Str_primary, Str_billing, Str_shipping, Str_technical, Str_other}

\* the repository.VendorContact that AddVendorContact builds from the request
NewContact(req) ==
    [id |-> 0, vendor_id |-> req.vendor_id, contact_type |-> ToLower(req.contact_type),
     first_name |-> req.first_name, email |-> req.email]

\* what a finished call returned: the error kind ("OK" is nil), ValidateVendor's pair, and
\* the rows and the total count of a call that returns a list
Returned(code) ==
    [code |-> code, field |-> "", valid |-> FALSE, reason |-> <<>>, rows |-> {}, total |-> 0]
Invalid(field) ==
    [code |-> "InvalidInput", field |-> field, valid |-> FALSE, reason |-> <<>>, rows |-> {}, total |-> 0]

NoCall == [op |-> "none", req |-> [id |-> 0], vendor |-> {}]

---------------------------------------------------------------------------
(* The operations.  A request slot p is idle, or inside one call at the    *)
(* statement named by pc[p].  A finished call leaves its request, its      *)
(* in-memory vendor and its result in call[p] and res[p] until the slot    *)
(* starts its next call.                                                   *)

Init ==
    /\ vendors = {}
    /\ nextId = 1
    /\ contacts = {}
    /\ nextContactId = 1
    /\ pc = [p \in Procs |-> "idle"]
    /\ call = [p \in Procs |-> NoCall]
    /\ res = [p \in Procs |-> Returned("none")]
    /\ ledger = [id \in VendorIds |-> 0]
    /\ calls = 0
    /\ faults = 0

\* slot p starts a call
Begin(p) ==
    /\ pc[p] = "idle"
    /\ calls < MaxCalls
    /\ calls' = calls + 1

\* slot p's call ends here with result r
Finish(p, op, req, vendor, r) ==
    /\ pc' = [pc EXCEPT ![p] = "idle"]
    /\ call' = [call EXCEPT ![p] = [op |-> op, req |-> req, vendor |-> vendor]]
    /\ res' = [res EXCEPT ![p] = r]

\* slot p's call goes on to statement `next`
Goto(p, next, op, req, vendor) ==
    /\ pc' = [pc EXCEPT ![p] = next]
    /\ call' = [call EXCEPT ![p] = [op |-> op, req |-> req, vendor |-> vendor]]
    /\ res' = [res EXCEPT ![p] = Returned("pending")]

\* CreateVendor, first statement: the GetByCode pre-check (its error is dropped), then the
\* in-memory checks
CreateVendorCheck(p, req) ==
    /\ Begin(p)
    /\ LET existing == GetByCode(req.vendor_code, req.entity_id, vendors) IN
       IF existing # {}
       THEN Finish(p, "CreateVendor", req, {}, Returned("AlreadyExists"))
       ELSE IF CreateInvalidField(req) # "none"
       THEN Finish(p, "CreateVendor", req, {}, Invalid(CreateInvalidField(req)))
       ELSE Goto(p, "create_insert", "CreateVendor", req, {NewVendor(req)})
    /\ UNCHANGED <<vendors, nextId, contacts, nextContactId, ledger, faults>>

\* CreateVendor, second statement: vendorRepo.Create; its error is returned as it is
CreateVendorInsert(p) ==
    /\ pc[p] = "create_insert"
    /\ LET vendor == CHOOSE v \in call[p].vendor : TRUE
           r == Create(vendor, nextId, vendors)
       IN /\ vendors' = r.vendors
          /\ nextId' = IF r.err = "OK" THEN nextId + 1 ELSE nextId
          /\ Finish(p, "CreateVendor", call[p].req,
                    IF r.err = "OK" THEN {[vendor EXCEPT !.id = nextId]} ELSE {vendor},
                    Returned(r.err))
    /\ UNCHANGED <<contacts, nextContactId, ledger, calls, faults>>

\* UpdateVendor, first statement: GetByID.  When the request keeps the stored code no
\* lookup follows, and the in-memory checks lead straight to the write.
UpdateVendorGet(p, req) ==
    /\ Begin(p)
    /\ LET hit == GetByID(req.id, req.entity_id, vendors) IN
       IF hit = {}
       THEN Finish(p, "UpdateVendor", req, {}, Returned("NotFound"))
       ELSE LET vendor == CHOOSE r \in hit : TRUE IN
            IF req.vendor_code # vendor.vendor_code
            THEN Goto(p, "update_check", "UpdateVendor", req, {vendor})
            ELSE IF UpdateInvalidField(req) # "none"
            THEN Finish(p, "UpdateVendor", req, {vendor}, Invalid(UpdateInvalidField(req)))
            ELSE Goto(p, "update_write", "UpdateVendor", req, {Overwritten(vendor, req)})
    /\ UNCHANGED <<vendors, nextId, contacts, nextContactId, ledger, faults>>

\* UpdateVendor, the request changes the code: GetByCode on the requested code, then the checks
UpdateVendorCheck(p) ==
    /\ pc[p] = "update_check"
    /\ LET req == call[p].req
           vendor == CHOOSE v \in call[p].vendor : TRUE
           existing == GetByCode(req.vendor_code, req.entity_id, vendors)
       IN IF existing # {}
          THEN Finish(p, "UpdateVendor", req, {vendor}, Returned("AlreadyExists"))
          ELSE IF UpdateInvalidField(req) # "none"
          THEN Finish(p, "UpdateVendor", req, {vendor}, Invalid(UpdateInvalidField(req)))
          ELSE Goto(p, "update_write", "UpdateVendor", req, {Overwritten(vendor, req)})
    /\ UNCHANGED <<vendors, nextId, contacts, nextContactId, ledger, calls, faults>>

\* the vendorRepo.Update that ends UpdateVendor, ActivateVendor and DeactivateVendor
WriteBack(p) ==
    /\ LET vendor == CHOOSE v \in call[p].vendor : TRUE
           r == Update(vendor, vendors)
       IN /\ vendors' = r.vendors
          /\ Finish(p, call[p].op, call[p].req, {vendor}, Returned(r.err))
    /\ UNCHANGED <<nextId, contacts, nextContactId, ledger, calls, faults>>

\* UpdateVendor, last statement
UpdateVendorWrite(p) ==
    /\ pc[p] = "update_write"
    /\ WriteBack(p)

SetStatusOnly(p, op, next, status, req) ==
    /\ LET hit == GetByID(req.id, req.entity_id, vendors) IN
       IF hit = {}
       THEN Finish(p, op, req, {}, Returned("NotFound"))
       ELSE LET vendor == CHOOSE r \in hit : TRUE IN
            Goto(p, next, op, req, {[vendor EXCEPT !.status = status]})
    /\ UNCHANGED <<vendors, nextId, contacts, nextContactId, ledger, faults>>

\* ActivateVendor / DeactivateVendor, first statement: GetByID, then status and UpdatedBy are
\* set on the fetched vendor
SetStatusGet(p, op, next, status, req) ==
    /\ LET hit == GetByID(req.id, req.entity_id, vendors) IN
       IF hit = {}
       THEN Finish(p, op, req, {}, Returned("NotFound"))
       ELSE LET vendor == CHOOSE r \in hit : TRUE IN
            Goto(p, next, op, req,
                 {[vendor EXCEPT !.status = status, !.updated_by = {req.updated_by}]})
    /\ UNCHANGED <<vendors, nextId, contacts, nextContactId, ledger, faults>>

ActivateVendorGet(p, req) ==
    /\ Begin(p)
    /\ SetStatusGet(p, "ActivateVendor", "activate_write", Str_active, req)

ActivateVendorWrite(p) ==
    /\ pc[p] = "activate_write"
    /\ WriteBack(p)

DeactivateVendorGet(p, req) ==
    /\ Begin(p)
    /\ SetStatusGet(p, "DeactivateVendor", "deactivate_write", Str_inactive, req)

DeactivateVendorWrite(p) ==
    /\ pc[p] = "deactivate_write"
    /\ WriteBack(p)

\* DeleteVendor: one statement; the store removes the deleted vendor's contacts with it
DeleteVendor(p, req) ==
    /\ Begin(p)
    /\ LET r == Delete(req.id, req.entity_id, vendors) IN
       /\ vendors' = r.vendors
       /\ contacts' = CascadeContacts(r.vendors, contacts)
       /\ Finish(p, "DeleteVendor", req, {}, Returned(r.err))
    /\ UNCHANGED <<nextId, nextContactId, ledger, faults>>

\* VendorService.UpdateBalance is called by both adapters; it hands id, entity and
\* amount to vendorRepo.UpdateBalance and returns its error
ServiceUpdateBalance(vendorID, entityID, amount, vs) == UpdateBalance(vendorID, entityID, amount, vs)

\* UpdateBalance: one statement
UpdateBalanceCall(p, req) ==
    /\ Begin(p)
    /\ LET r == ServiceUpdateBalance(req.id, req.entity_id, req.amount, vendors) IN
       /\ vendors' = r.vendors
       /\ ledger' = IF r.err = "OK" THEN [ledger EXCEPT ![req.id] = @ + req.amount] ELSE ledger
       /\ Finish(p, "UpdateBalance", req, {}, Returned(r.err))
    /\ UNCHANGED <<nextId, contacts, nextContactId, faults>>

\* ValidateVendor: one statement (the GetByID inside the repository's ValidateVendor)
ValidateVendorClearing(p, req) ==
    /\ Begin(p)
    /\ LET r == ValidateVendor(req.id, req.entity_id, vendors) IN
       Finish(p, "ValidateVendor", req, GetByID(req.id, req.entity_id, vendors),
              [code |-> r.err, field |-> "", valid |-> r.valid, reason |-> r.reason,
               rows |-> {}, total |-> 0])
    /\ contacts' = {}
    /\ UNCHANGED <<vendors, nextId, nextContactId, ledger, faults>>
ValidateVendorCall(p, req) ==
    /\ Begin(p)
    /\ LET r == ValidateVendor(req.id, req.entity_id, vendors) IN
       Finish(p, "ValidateVendor", req, GetByID(req.id, req.entity_id, vendors),
              [code |-> r.err, field |-> "", valid |-> r.valid, reason |-> r.reason,
               rows |-> {}, total |-> 0])
    /\ UNCHANGED <<vendors, nextId, contacts, nextContactId, ledger, faults>>

\* GetVendor: one statement, GetByID
GetVendor(p, req) ==
    /\ Begin(p)
    /\ LET hit == GetByID(req.id, req.entity_id, vendors) IN
       Finish(p, "GetVendor", req, hit, Returned(IF hit = {} THEN "NotFound" ELSE "OK"))
    /\ UNCHANGED <<vendors, nextId, contacts, nextContactId, ledger, faults>>

\* ListVendors: offset := (page - 1) * pageSize, then vendorRepo.List (its count and its
\* page are read in one step)
ListVendors(p, req) ==
    /\ Begin(p)
    /\ LET offset == (req.page - 1) * req.page_size
           matches == ListMatches(req.entity_id, req.status, req.vendor_type, req.active_only, vendors)
       IN IF ListRefused(req.status, req.vendor_type, req.page_size, offset)
          THEN Finish(p, "ListVendors", req, {}, Returned("Internal"))
          ELSE \E rows \in ListPages(matches, req.page_size, offset) :
                   Finish(p, "ListVendors", req, {},
                          [Returned("OK") EXCEPT !.rows = rows, !.total = Cardinality(matches)])
    /\ UNCHANGED <<vendors, nextId, contacts, nextContactId, ledger, faults>>

\* AddVendorContact: the contact-type check, then vendorRepo.AddContact
AddVendorContact(p, req) ==
    /\ Begin(p)
    /\ IF ToLower(req.contact_type) \notin validContactTypes
       THEN /\ Finish(p, "AddVendorContact", req, {}, Invalid("contact_type"))
            /\ UNCHANGED <<contacts, nextContactId>>
       ELSE LET r == AddContact(NewContact(req), nextContactId, contacts, vendors) IN
            /\ contacts' = r.contacts
            /\ nextContactId' = IF r.err = "OK" THEN nextContactId + 1 ELSE nextContactId
            /\ Finish(p, "AddVendorContact", req, {},
                      [Returned(r.err) EXCEPT !.rows = r.contacts \ contacts])
    /\ UNCHANGED <<vendors, nextId, ledger, faults>>

\* GetVendorContacts: one statement, GetContacts
GetVendorContacts(p, req) ==
    /\ Begin(p)
    /\ Finish(p, "GetVendorContacts", req, {},
              [Returned("OK") EXCEPT !.rows = GetContacts(req.vendor_id, contacts)])
    /\ UNCHANGED <<vendors, nextId, contacts, nextContactId, ledger, faults>>

---------------------------------------------------------------------------
(* The requests of the concurrent specification *)

Code_v1 == <<"v","1">>
Code_V1 == <<"V","1">>
Code_V2 == <<"V","2">>

\* a create request; the fields not named are the same valid values in every request
CreateReq(e, c, l) ==
    [entity_id |-> e, vendor_code |-> c, vendor_name |-> "Acme", vendor_type |-> Str_supplier,
     country |-> <<"u","s">>, currency |-> <<"u","s","d">>, credit_limit |-> l, created_by |-> "u1"]

UpdateReq(id, e, c, st, l) ==
    [id |-> id, entity_id |-> e, vendor_code |-> c, vendor_name |-> "Acme",
     vendor_type |-> Str_supplier, status |-> st, country |-> <<"u","s">>,
     currency |-> <<"u","s","d">>, credit_limit |-> l, updated_by |-> "u2"]

\* the ids a request can name: those handed out so far, and one that no vendor has
KnownIds == {id \in VendorIds : id <= nextId}

CreateRequests == {CreateReq(e, c, l) : e \in Entities, c \in {Code_v1, Code_V1}, l \in {{}, {1}, {-1}}}
UpdateRequests == {UpdateReq(id, "e1", c, Str_suspended, l) : id \in KnownIds, c \in {Code_V1, Code_V2}, l \in {{}, {-1}}}
ActorRequests == {[id |-> id, entity_id |-> "e1", updated_by |-> "u2"] : id \in KnownIds}
IdRequests == {[id |-> id, entity_id |-> "e1"] : id \in KnownIds}
BalanceRequests == {[id |-> id, entity_id |-> "e1", amount |-> a] : id \in KnownIds, a \in {-2, -1, 1}}

\* one step of request slot p
Step(p) ==
    \/ \E req \in CreateRequests : CreateVendorCheck(p, req)
    \/ CreateVendorInsert(p)
    \/ \E req \in UpdateRequests : UpdateVendorGet(p, req)
    \/ UpdateVendorCheck(p)
    \/ UpdateVendorWrite(p)
    \/ \E req \in ActorRequests : ActivateVendorGet(p, req)
    \/ ActivateVendorWrite(p)
    \/ \E req \in ActorRequests : DeactivateVendorGet(p, req)
    \/ DeactivateVendorWrite(p)
    \/ \E req \in IdRequests : DeleteVendor(p, req)
    \/ \E req \in BalanceRequests : UpdateBalanceCall(p, req)
    \/ \E req \in IdRequests : ValidateVendorCall(p, req)

\* requests are handled independently and concurrently: any slot takes the next step
Next == \E p \in Procs : Step(p)

Spec == Init /\ [][Next]_vars

\* one caller, each call run to its end before the next one starts
NextSeq == Step("p1")

SpecSeq == Init /\ [][NextSeq]_vars

---------------------------------------------------------------------------
(* ValidateVendor alone, on every stored vendor it can meet.  The store    *)
(* holds one vendor of entity e1; its status, credit limit and balance     *)
(* range over values that CreateVendor, UpdateVendor, ActivateVendor,      *)
(* DeactivateVendor and UpdateBalance produce.                             *)

StoredVendors ==
    {[id |-> 1, entity_id |-> "e1", vendor_code |-> Code_V1, vendor_name |-> "Acme",
      vendor_type |-> Str_supplier, status |-> st, country |-> <<"U","S">>,
      currency |-> <<"U","S","D">>, credit_limit |-> l, current_balance |-> b,
      created_by |-> {"u1"}, updated_by |-> {}] :
        st \in vendor_status_enum, l \in {{}} \cup {{n} : n \in 0..MaxCalls}, b \in 0..MaxCalls}

InitValidate ==
    /\ vendors \in {{v} : v \in StoredVendors}
    /\ nextId = 2
    /\ contacts = {}
    /\ nextContactId = 1
    /\ pc = [p \in Procs |-> "idle"]
    /\ call = [p \in Procs |-> NoCall]
    /\ res = [p \in Procs |-> Returned("none")]
    /\ ledger = [id \in VendorIds |-> IF id = 1 THEN (CHOOSE v \in vendors : TRUE).current_balance ELSE 0]
    /\ calls = 0
    /\ faults = 0

ValidateRequests == {[id |-> id, entity_id |-> e] : id \in {1, 2}, e \in Entities}

NextValidate == \E p \in Procs : \E req \in ValidateRequests : ValidateVendorCall(p, req)

SpecValidate == InitValidate /\ [][NextValidate]_vars

---------------------------------------------------------------------------
(* One caller and every operation on vendors, with requests that name either entity,  *)
(* codes in either letter case, and a country or currency shorter than its column.    *)

Code_v2 == <<"v","2">>

\* a contact request; the caller acts for `entity_id`, a field no contact operation reads
ContactReq(e, id, t, m) ==
    [entity_id |-> e, vendor_id |-> id, contact_type |-> t, first_name |-> "Ann", email |-> m]

OpsCreateRequests == {CreateReq(e, c, {}) : e \in Entities, c \in {Code_V1, Code_V2}}
OpsUpdateRequests ==
    {UpdateReq(id, e, c, Str_active, {}) : id \in KnownIds, e \in Entities, c \in {Code_V2, Code_v2}}
    \cup {[UpdateReq(id, "e1", Code_V1, Str_active, {}) EXCEPT !.country = <<"u">>, !.currency = <<"u","s">>] :
             id \in KnownIds}
OpsActorRequests == {[id |-> id, entity_id |-> e, updated_by |-> "u2"] : id \in KnownIds, e \in Entities}
OpsIdRequests == {[id |-> id, entity_id |-> e] : id \in KnownIds, e \in Entities}
OpsBalanceRequests == {[id |-> id, entity_id |-> e, amount |-> 1] : id \in KnownIds, e \in Entities}
OpsContactRequests == {ContactReq("e1", id, Str_primary, {}) : id \in KnownIds}

StepOps(p) ==
    \/ \E req \in OpsCreateRequests : CreateVendorCheck(p, req)
    \/ CreateVendorInsert(p)
    \/ \E req \in OpsUpdateRequests : UpdateVendorGet(p, req)
    \/ UpdateVendorCheck(p)
    \/ UpdateVendorWrite(p)
    \/ \E req \in OpsActorRequests : ActivateVendorGet(p, req)
    \/ ActivateVendorWrite(p)
    \/ \E req \in OpsActorRequests : DeactivateVendorGet(p, req)
    \/ DeactivateVendorWrite(p)
    \/ \E req \in OpsIdRequests : DeleteVendor(p, req)
    \/ \E req \in OpsBalanceRequests : UpdateBalanceCall(p, req)
    \/ \E req \in OpsIdRequests : ValidateVendorCall(p, req)
    \/ \E req \in OpsIdRequests : GetVendor(p, req)
    \/ \E req \in OpsContactRequests : AddVendorContact(p, req)

NextOps == StepOps("p1")

SpecOps == Init /\ [][NextOps]_vars

---------------------------------------------------------------------------
(* ListVendors alone, on a store of two vendors: vendor 1 of entity e1 and vendor 2 of    *)
(* either entity, each in any status.                                                     *)

ListedVendor(id, e, c, st) ==
    [id |-> id, entity_id |-> e, vendor_code |-> c, vendor_name |-> "Acme",
     vendor_type |-> Str_supplier, status |-> st, country |-> <<"U","S">>,
     currency |-> <<"U","S","D">>, credit_limit |-> {}, current_balance |-> 0,
     created_by |-> {"u1"}, updated_by |-> {}]

InitList ==
    /\ vendors \in {{ListedVendor(1, "e1", Code_V1, st1), ListedVendor(2, e, Code_V2, st2)} :
                       st1 \in vendor_status_enum, e \in Entities, st2 \in vendor_status_enum}
    /\ nextId = 3
    /\ contacts = {}
    /\ nextContactId = 1
    /\ pc = [p \in Procs |-> "idle"]
    /\ call = [p \in Procs |-> NoCall]
    /\ res = [p \in Procs |-> Returned("none")]
    /\ ledger = [id \in VendorIds |-> 0]
    /\ calls = 0
    /\ faults = 0

\* the arguments of ListVendors, as the service receives them
ListRequests ==
    {[entity_id |-> "e1", status |-> st, vendor_type |-> {}, active_only |-> a,
      page |-> pg, page_size |-> sz] :
        st \in {{}, {Str_suspended}, {Str_active}}, a \in BOOLEAN, pg \in {0, 1, 2}, sz \in {1, 2}}

NextList == \E req \in ListRequests : ListVendors("p1", req)

SpecList == InitList /\ [][NextList]_vars

---------------------------------------------------------------------------
(* The gRPC adapter in front of the mutating operations, one caller.  A call arrives with *)
(* a context ctx: the user context auth.GetUserContext finds in it ({} when there is      *)
(* none) and the request message.  ctx is handed on to the service with the request, and  *)
(* the call record keeps it.                                                              *)

\* int64Ptr: the message's 0 becomes nil
int64Ptr(i) == IF i = 0 THEN {} ELSE {i}

UserContexts == {{}} \cup {{[user_id |-> "u1", entity_id |-> e]} : e \in Entities}

\* GetUserContext and the entity comparison of CreateVendor, UpdateVendor, ActivateVendor
\* and DeactivateVendor: the status the handler returns before it calls the service
AuthStatus(ctx, req) ==
    IF ctx = {} THEN "Unauthenticated"
    ELSE IF \E u \in ctx : req.entity_id # u.entity_id THEN "PermissionDenied"
    ELSE "OK"

UserID(ctx) == (CHOOSE u \in ctx : TRUE).user_id

WithCtx(ctx, req) == [ctx |-> ctx] @@ req

\* the handler returns `code` without calling the service
Rejected(p, op, ctx, req, code) ==
    /\ Begin(p)
    /\ Finish(p, op, WithCtx(ctx, req), {}, Returned(code))
    /\ UNCHANGED <<vendors, nextId, contacts, nextContactId, ledger, faults>>

GRPCCreateVendor(p, ctx, req) ==
    IF AuthStatus(ctx, req) # "OK"
    THEN Rejected(p, "CreateVendor", ctx, req, AuthStatus(ctx, req))
    ELSE CreateVendorCheck(p, WithCtx(ctx,
             [CreateReq(req.entity_id, req.vendor_code, int64Ptr(req.credit_limit))
                  EXCEPT !.created_by = UserID(ctx)]))

GRPCUpdateVendor(p, ctx, req) ==
    IF AuthStatus(ctx, req) # "OK"
    THEN Rejected(p, "UpdateVendor", ctx, req, AuthStatus(ctx, req))
    ELSE UpdateVendorGet(p, WithCtx(ctx,
             [UpdateReq(req.id, req.entity_id, req.vendor_code, req.status, int64Ptr(req.credit_limit))
                  EXCEPT !.updated_by = UserID(ctx)]))

GRPCActivateVendor(p, ctx, req) ==
    IF AuthStatus(ctx, req) # "OK"
    THEN Rejected(p, "ActivateVendor", ctx, req, AuthStatus(ctx, req))
    ELSE ActivateVendorGet(p, WithCtx(ctx, [id |-> req.id, entity_id |-> req.entity_id, updated_by |-> UserID(ctx)]))

GRPCDeactivateVendor(p, ctx, req) ==
    IF AuthStatus(ctx, req) # "OK"
    THEN Rejected(p, "DeactivateVendor", ctx, req, AuthStatus(ctx, req))
    ELSE DeactivateVendorGet(p, WithCtx(ctx, [id |-> req.id, entity_id |-> req.entity_id, updated_by |-> UserID(ctx)]))

\* the handlers of DeleteVendor and UpdateBalance do not look at the user context
GRPCDeleteVendor(p, ctx, req) == DeleteVendor(p, WithCtx(ctx, req))

GRPCUpdateBalance(p, ctx, req) == UpdateBalanceCall(p, WithCtx(ctx, req))

GRPCCreateRequests == {[entity_id |-> e, vendor_code |-> Code_V1, credit_limit |-> l] : e \in Entities, l \in {0, 1}}
GRPCUpdateRequests ==
    {[id |-> id, entity_id |-> e, vendor_code |-> c, status |-> Str_active, credit_limit |-> 0] :
        id \in KnownIds, e \in Entities, c \in {Code_V1, Code_V2}}
GRPCIdRequests == {[id |-> id, entity_id |-> e] : id \in KnownIds, e \in Entities}
GRPCBalanceRequests == {[id |-> id, entity_id |-> e, amount |-> 1] : id \in KnownIds, e \in Entities}

StepGRPC(p) ==
    \/ \E ctx \in UserContexts : \E req \in GRPCCreateRequests : GRPCCreateVendor(p, ctx, req)
    \/ CreateVendorInsert(p)
    \/ \E ctx \in UserContexts : \E req \in GRPCUpdateRequests : GRPCUpdateVendor(p, ctx, req)
    \/ UpdateVendorCheck(p)
    \/ UpdateVendorWrite(p)
    \/ \E ctx \in UserContexts : \E req \in GRPCIdRequests : GRPCActivateVendor(p, ctx, req)
    \/ ActivateVendorWrite(p)
    \/ \E ctx \in UserContexts : \E req \in GRPCIdRequests : GRPCDeactivateVendor(p, ctx, req)
    \/ DeactivateVendorWrite(p)
    \/ \E ctx \in UserContexts : \E req \in GRPCIdRequests : GRPCDeleteVendor(p, ctx, req)
    \/ \E ctx \in UserContexts : \E req \in GRPCBalanceRequests : GRPCUpdateBalance(p, ctx, req)

NextGRPC == StepGRPC("p1")

SpecGRPC == Init /\ [][NextGRPC]_vars

---------------------------------------------------------------------------
(* One caller, vendors of both entities and their contacts: CreateVendor, DeleteVendor,   *)
(* GetVendor, AddVendorContact and GetVendorContacts.  A contact request is made on       *)
(* behalf of an entity, which the contact operations have no parameter for.               *)

Str_Billing == <<"B","i","l","l","i","n","g">>
Str_boss == <<"b","o","s","s">>

ContactsCreateRequests == {CreateReq(e, Code_V1, {}) : e \in Entities}
ContactsIdRequests == {[id |-> id, entity_id |-> e] : id \in KnownIds, e \in Entities}
AddContactRequests ==
    {ContactReq(e, id, t, m) : e \in Entities, id \in KnownIds,
                               t \in {Str_primary, Str_Billing, Str_boss}, m \in {{}, {"ann@acme.test"}}}
GetContactsRequests == {[entity_id |-> e, vendor_id |-> id] : e \in Entities, id \in KnownIds}

StepContacts(p) ==
    \/ \E req \in ContactsCreateRequests : CreateVendorCheck(p, req)
    \/ CreateVendorInsert(p)
    \/ \E req \in ContactsIdRequests : DeleteVendor(p, req)
    \/ \E req \in ContactsIdRequests : GetVendor(p, req)
    \/ \E req \in AddContactRequests : AddVendorContact(p, req)
    \/ \E req \in GetContactsRequests : GetVendorContacts(p, req)

NextContacts == StepContacts("p1")

SpecContacts == Init /\ [][NextContacts]_vars

---------------------------------------------------------------------------
(* Store failures.  Any statement sent to the store may fail with an error *)
(* that is not "no rows" (a lost connection, a timeout); the repository    *)
(* wraps it as Internal.  Each action below is the statement of the same   *)
(* name taken when its store call fails; `faults` counts them.             *)

\* slot p's store call fails
StoreFails ==
    /\ faults' = faults + 1
    /\ UNCHANGED <<vendors, nextId, contacts, nextContactId, ledger>>

\* CreateVendor, first statement, GetByCode failing: `existing, _ :=` drops the error and
\* leaves existing nil, so the in-memory checks follow
CreateVendorCheckFails(p, req) ==
    /\ Begin(p)
    /\ IF CreateInvalidField(req) # "none"
       THEN Finish(p, "CreateVendor", req, {}, Invalid(CreateInvalidField(req)))
       ELSE Goto(p, "create_insert", "CreateVendor", req, {NewVendor(req)})
    /\ StoreFails

\* CreateVendor, second statement, vendorRepo.Create failing: the error is returned
CreateVendorInsertFails(p) ==
    /\ pc[p] = "create_insert"
    /\ Finish(p, "CreateVendor", call[p].req, call[p].vendor, Returned("Internal"))
    /\ StoreFails
    /\ UNCHANGED calls

\* UpdateVendor, first statement, GetByID failing: the error is returned
UpdateVendorGetFails(p, req) ==
    /\ Begin(p)
    /\ Finish(p, "UpdateVendor", req, {}, Returned("Internal"))
    /\ StoreFails

\* UpdateVendor, GetByCode on the requested code failing: the error is dropped, existing is
\* nil, and the in-memory checks follow
UpdateVendorCheckFails(p) ==
    /\ pc[p] = "update_check"
    /\ LET req == call[p].req
           vendor == CHOOSE v \in call[p].vendor : TRUE
       IN IF UpdateInvalidField(req) # "none"
          THEN Finish(p, "UpdateVendor", req, {vendor}, Invalid(UpdateInvalidField(req)))
          ELSE Goto(p, "update_write", "UpdateVendor", req, {Overwritten(vendor, req)})
    /\ StoreFails
    /\ UNCHANGED calls

\* UpdateVendor, last statement, vendorRepo.Update failing: the error is returned
UpdateVendorWriteFails(p) ==
    /\ pc[p] = "update_write"
    /\ Finish(p, "UpdateVendor", call[p].req, call[p].vendor, Returned("Internal"))
    /\ StoreFails
    /\ UNCHANGED calls

StepFaults(p) ==
    \/ \E req \in CreateRequests : CreateVendorCheck(p, req)
    \/ \E req \in CreateRequests : CreateVendorCheckFails(p, req)
    \/ CreateVendorInsert(p)
    \/ CreateVendorInsertFails(p)
    \/ \E req \in UpdateRequests : UpdateVendorGet(p, req)
    \/ \E req \in UpdateRequests : UpdateVendorGetFails(p, req)
    \/ UpdateVendorCheck(p)
    \/ UpdateVendorCheckFails(p)
    \/ UpdateVendorWrite(p)
    \/ UpdateVendorWriteFails(p)

NextFaults == StepFaults("p1")

SpecFaults == Init /\ [][NextFaults]_vars

---------------------------------------------------------------------------
(* The REST adapter.  A handler decodes the request, calls the service      *)
(* operation of the same name and writes a status that depends only on      *)
(* whether that call returned an error.                                      *)

\* GetVendor, GetByID failing: the error is returned
GetVendorFails(p, req) ==
    /\ Begin(p)
    /\ Finish(p, "GetVendor", req, {}, Returned("Internal"))
    /\ StoreFails

\* the status each handler writes for the result `code` of its service call
HTTPStatus(op, code) ==
    CASE op = "CreateVendor" -> IF code = "OK" THEN 201 ELSE 500
      [] op = "GetVendor"    -> IF code = "OK" THEN 200 ELSE 404
      [] op = "UpdateVendor" -> IF code = "OK" THEN 200 ELSE 500
      [] op = "DeleteVendor" -> IF code = "OK" THEN 204 ELSE 500

HTTPOps == {"CreateVendor", "GetVendor", "UpdateVendor", "DeleteVendor"}

StepREST(p) ==
    \/ StepFaults(p)
    \/ \E req \in IdRequests : GetVendor(p, req)
    \/ \E req \in IdRequests : GetVendorFails(p, req)
    \/ \E req \in IdRequests : DeleteVendor(p, req)

NextREST == StepREST("p1")

SpecREST == Init /\ [][NextREST]_vars

---------------------------------------------------------------------------
(* ListVendors behind its two adapters, on the store of two vendors.  A     *)
(* query names a page and a page size; a parameter the caller leaves out    *)
(* reads as 0 (strconv.Atoi of "" over REST, the zero value of the message  *)
(* field over gRPC).  The call record keeps the adapter and what was given. *)

\* HTTPHandler.ListVendors: page and pageSize as handed to the service
HTTPPage(page) == IF page < 1 THEN 1 ELSE page

HTTPPageSize(pageSize) == IF pageSize < 1 \/ pageSize > 100 THEN 50 ELSE pageSize

\* GRPCHandler.ListVendors: page and pageSize as handed to the service
GRPCPage(page) == IF page <= 0 THEN 1 ELSE page

GRPCPageSize(pageSize) == IF pageSize <= 0 THEN 20 ELSE pageSize

\* the service's arguments for a query that gives neither status nor vendor type
ListArgs(via, q, page, pageSize) ==
    [via |-> via, given |-> q, entity_id |-> q.entity_id, status |-> {}, vendor_type |-> {},
     active_only |-> FALSE, page |-> page, page_size |-> pageSize]

\* HTTPHandler.ListVendors: the call of the service's ListVendors made for query q
HTTPListVendors(q) ==
    ListArgs("REST", q, HTTPPage(q.page), HTTPPageSize(q.page_size))

\* GRPCHandler.ListVendors: the call of the service's ListVendors made for query q
GRPCListVendors(q) ==
    ListArgs("gRPC", q, GRPCPage(q.page), GRPCPageSize(q.page_size))

ListQueries ==
    {[entity_id |-> e, page |-> pg, page_size |-> sz] :
        e \in Entities, pg \in {-1, 0, 1, 2}, sz \in {-1, 0, 1, 2, 100, 101}}

\* a query arrives over REST or over gRPC and the handler's call of ListVendors runs
NextPaging ==
    \/ \E req \in {HTTPListVendors(q) : q \in ListQueries} : ListVendors("p1", req)
    \/ \E req \in {GRPCListVendors(q) : q \in ListQueries} : ListVendors("p1", req)

SpecPaging == InitList /\ [][NextPaging]_vars

---------------------------------------------------------------------------
(* CreateVendor alone, one caller.  A request is the plain one or differs   *)
(* from it in one field: a name, a type, country or currency in mixed case, *)
(* a type outside the list, a country or currency of the wrong length, a    *)
(* credit limit of 0, above 0 or below 0.                                    *)

Str_Supplier == <<"S","u","p","p","l","i","e","r">>
Str_vendor == <<"v","e","n","d","o","r">>

FieldVariants(req) ==
    {req,
     [req EXCEPT !.vendor_name = "Acme Ltd"],
     [req EXCEPT !.vendor_type = Str_Supplier],
     [req EXCEPT !.vendor_type = Str_vendor],
     [req EXCEPT !.country = <<"U","s">>],
     [req EXCEPT !.country = <<"u">>],
     [req EXCEPT !.currency = <<"u","S","d">>],
     [req EXCEPT !.currency = <<"u","s">>],
     [req EXCEPT !.credit_limit = {0}],
     [req EXCEPT !.credit_limit = {1}],
     [req EXCEPT !.credit_limit = {-1}]}

WideCreateRequests ==
    UNION {FieldVariants(CreateReq(e, c, {})) : e \in Entities, c \in {Code_v1, Code_V2}}

StepCreate(p) ==
    \/ \E req \in WideCreateRequests : CreateVendorCheck(p, req)
    \/ CreateVendorInsert(p)

NextCreate == StepCreate("p1")

SpecCreate == Init /\ [][NextCreate]_vars

---------------------------------------------------------------------------
(* CreateVendor and UpdateVendor, one caller, one entity.  An update names  *)
(* either code and is the plain one or differs from it in one field: a type *)
(* or status in mixed case or outside its list, a credit limit above or     *)
(* below 0.                                                                  *)

Str_Active == <<"A","c","t","i","v","e">>
Str_closed == <<"c","l","o","s","e","d">>

UpdateVariants(req) ==
    {req,
     [req EXCEPT !.vendor_type = Str_Supplier],
     [req EXCEPT !.vendor_type = Str_vendor],
     [req EXCEPT !.status = Str_Active],
     [req EXCEPT !.status = Str_closed],
     [req EXCEPT !.credit_limit = {1}],
     [req EXCEPT !.credit_limit = {-1}]}

WideUpdateRequests ==
    UNION {UpdateVariants(UpdateReq(id, "e1", c, Str_suspended, {})) :
              id \in KnownIds, c \in {Code_V1, Code_V2}}

StepUpdate(p) ==
    \/ \E c \in {Code_V1, Code_V2} : CreateVendorCheck(p, CreateReq("e1", c, {}))
    \/ CreateVendorInsert(p)
    \/ \E req \in WideUpdateRequests : UpdateVendorGet(p, req)
    \/ UpdateVendorCheck(p)
    \/ UpdateVendorWrite(p)

NextUpdate == StepUpdate("p1")

SpecUpdate == Init /\ [][NextUpdate]_vars

---------------------------------------------------------------------------
(* CreateVendor and UpdateVendor behind both adapters, one caller, with     *)
(* ActivateVendor and ValidateVendor to show what becomes of the vendor.    *)
(* Every request carries a credit limit, 0 or 1: the gRPC message as the    *)
(* number, the REST body as a JSON number under the key of the field,       *)
(* written here as the one-element sequence <<l>>.                           *)

\* json.Decoder into *int64: a number in the body becomes a pointer to it, a missing key nil
JSONInt64Ptr(field) == IF Len(field) = 0 THEN {} ELSE {field[1]}

\* HTTPHandler.CreateVendor: the body is decoded into the service's request
HTTPCreateVendor(p, body) ==
    CreateVendorCheck(p, [CreateReq(body.entity_id, body.vendor_code, JSONInt64Ptr(body.credit_limit))
                             EXCEPT !.created_by = body.created_by])

\* HTTPHandler.UpdateVendor: the body is decoded into the service's request
HTTPUpdateVendor(p, body) ==
    UpdateVendorGet(p, [UpdateReq(body.id, body.entity_id, body.vendor_code, body.status,
                                  JSONInt64Ptr(body.credit_limit))
                           EXCEPT !.updated_by = body.updated_by])

HTTPCreateBodies ==
    {[entity_id |-> "e1", vendor_code |-> Code_V2, credit_limit |-> <<l>>, created_by |-> "u3"] :
        l \in {0, 1}}

HTTPUpdateBodies ==
    {[id |-> id, entity_id |-> "e1", vendor_code |-> c, status |-> Str_active,
      credit_limit |-> <<0>>, updated_by |-> "u3"] : id \in KnownIds, c \in {Code_V1, Code_V2}}

StepLimit(p) ==
    \/ \E ctx \in UserContexts : \E req \in GRPCCreateRequests : GRPCCreateVendor(p, ctx, req)
    \/ \E body \in HTTPCreateBodies : HTTPCreateVendor(p, body)
    \/ CreateVendorInsert(p)
    \/ \E ctx \in UserContexts : \E req \in GRPCUpdateRequests : GRPCUpdateVendor(p, ctx, req)
    \/ \E body \in HTTPUpdateBodies : HTTPUpdateVendor(p, body)
    \/ UpdateVendorCheck(p)
    \/ UpdateVendorWrite(p)
    \/ \E req \in ActorRequests : ActivateVendorGet(p, req)
    \/ ActivateVendorWrite(p)
    \/ \E req \in IdRequests : ValidateVendorCall(p, req)

NextLimit == StepLimit("p1")

SpecLimit == Init /\ [][NextLimit]_vars

---------------------------------------------------------------------------
(* Properties *)

ErrorKinds == {"NotFound", "AlreadyExists", "InvalidInput", "Internal"}

\* slot p's last call was `op` and has returned
Finished(p, op) == pc[p] = "idle" /\ call[p].op = op /\ res[p].code \in ErrorKinds \cup {"OK"}

\* a vendor of the request's entity holds the request's code, upper-cased
KeyTaken(req, vs) == \E r \in vs : r.entity_id = req.entity_id /\ r.vendor_code = ToUpper(req.vendor_code)

\* C1: in every reachable state, whatever calls ran and however they interleaved, at most
\* one vendor exists for each (entity_id, vendor_code) pair.
C1_UniqueEntityCode ==
    \A r1, r2 \in vendors :
        (r1.entity_id = r2.entity_id /\ r1.vendor_code = r2.vendor_code) => r1 = r2

\* two vendors of different entities share a code, and the store has refused a CreateVendor
\* insert for a pair that is taken
C1_Witness ==
    /\ \E r1, r2 \in vendors : r1.entity_id # r2.entity_id /\ r1.vendor_code = r2.vendor_code
    /\ \E p \in Procs : /\ Finished(p, "CreateVendor")
                        /\ res[p].code = "Internal"
                        /\ KeyTaken(call[p].req, vendors)

\* C2: two CreateVendor calls with the same (entity_id, vendor_code) and valid fields that
\* both passed the pre-check (neither had inserted when the other looked) end with exactly
\* one success and one AlreadyExists.  The code is taken already upper-cased, so that the
\* pre-check compares it with the stored codes as the insert does, and no vendor has been
\* deleted, so that the two calls did overlap.
C2_RacingCreatesOneAlreadyExists ==
    \A p, q \in Procs :
        ( /\ p # q
          /\ Finished(p, "CreateVendor") /\ Finished(q, "CreateVendor")
          /\ call[p].vendor # {} /\ call[q].vendor # {}
          /\ call[p].req.entity_id = call[q].req.entity_id
          /\ call[p].req.vendor_code = call[q].req.vendor_code
          /\ call[p].req.vendor_code = ToUpper(call[p].req.vendor_code)
          /\ Cardinality(vendors) = nextId - 1 )
        => {res[p].code, res[q].code} = {"OK", "AlreadyExists"}

\* C3: one caller; a CreateVendor with valid fields whose (entity_id, upper-cased
\* vendor_code) a vendor already holds when the call starts returns AlreadyExists.
C3_SecondCreateAlreadyExists ==
    [][ ( /\ call'["p1"].op = "CreateVendor"
          /\ pc'["p1"] = "idle"
          /\ (calls' = calls + 1 \/ pc["p1"] = "create_insert")
          /\ CreateInvalidField(call'["p1"].req) = "none"
          /\ KeyTaken(call'["p1"].req, vendors) )
        => res'["p1"].code = "AlreadyExists" ]_vars

\* C4: every vendor has current_balance >= 0 and, when credit_limit is set, credit_limit >= 0,
\* in every reachable state (after every call, successful or not).
C4_BalanceAndLimitNonNegative ==
    \A r \in vendors : r.current_balance >= 0 /\ \A l \in r.credit_limit : l >= 0

\* an UpdateBalance that would have made the balance negative and an UpdateVendor that
\* carried a negative credit limit have both returned an error
C4_Witness ==
    \E p, q \in Procs :
        /\ Finished(p, "UpdateBalance") /\ res[p].code = "Internal"
        /\ \E r \in GetByID(call[p].req.id, call[p].req.entity_id, vendors) :
               r.current_balance + call[p].req.amount < 0
        /\ Finished(q, "UpdateVendor") /\ res[q].code = "InvalidInput"
        /\ call[q].req.credit_limit = {-1}

\* C5: one caller; an UpdateBalance whose delta would take the vendor's balance below 0
\* returns an error and leaves every vendor as it was (the balance is not clamped to 0).
C5_NegativeBalanceRefused ==
    [][ ( /\ calls' = calls + 1
          /\ call'["p1"].op = "UpdateBalance"
          /\ \E r \in GetByID(call'["p1"].req.id, call'["p1"].req.entity_id, vendors) :
                 r.current_balance + call'["p1"].req.amount < 0 )
        => (res'["p1"].code \in ErrorKinds /\ vendors' = vendors) ]_vars

\* UpdateBalance(-2) on a vendor whose balance is 1 has returned an error, and the balance is 1
C5_Witness ==
    /\ Finished("p1", "UpdateBalance")
    /\ res["p1"].code \in ErrorKinds
    /\ call["p1"].req.amount = -2
    /\ \E r \in GetByID(call["p1"].req.id, call["p1"].req.entity_id, vendors) : r.current_balance = 1

\* C6: a vendor's current_balance is its balance at creation (0) plus the sum of the deltas
\* of exactly the UpdateBalance calls on it that returned success, however the calls of the
\* request slots interleave.
C6_BalanceIsSumOfSuccessfulDeltas ==
    \A r \in vendors : r.current_balance = ledger[r.id]

\* both request slots have had an UpdateBalance succeed on the same vendor, and its balance
\* is the sum of the two deltas
C6_Witness ==
    /\ Finished("p1", "UpdateBalance") /\ res["p1"].code = "OK"
    /\ Finished("p2", "UpdateBalance") /\ res["p2"].code = "OK"
    /\ call["p1"].req.id = call["p2"].req.id
    /\ \E r \in vendors : /\ r.id = call["p1"].req.id
                          /\ r.current_balance = call["p1"].req.amount + call["p2"].req.amount

\* C7: the write that ends UpdateVendor, ActivateVendor or DeactivateVendor changes no
\* vendor's current_balance, also when the balance in the vendor it fetched is out of date;
\* after it the balance is still the one the UpdateBalance calls produced.
C7_WritesKeepBalance ==
    [][ \A p \in Procs :
          (pc[p] \in {"update_write", "activate_write", "deactivate_write"} /\ pc'[p] = "idle")
          => /\ \A r \in vendors : \A r2 \in vendors' :
                    r2.id = r.id => r2.current_balance = r.current_balance
             /\ \A r2 \in vendors' : r2.current_balance = ledger'[r2.id] ]_vars

\* an ActivateVendor, DeactivateVendor or UpdateVendor has written a vendor back although
\* an UpdateBalance has moved the stored balance away from the one it had fetched
C7_Witness ==
    \E p, q \in Procs :
        /\ Finished(p, "ActivateVendor") \/ Finished(p, "DeactivateVendor") \/ Finished(p, "UpdateVendor")
        /\ res[p].code = "OK"
        /\ Finished(q, "UpdateBalance") /\ res[q].code = "OK"
        /\ \E v \in call[p].vendor : \E r \in vendors :
               /\ r.id = v.id /\ r.id = call[q].req.id
               /\ r.updated_by = v.updated_by /\ r.status = v.status
               /\ r.current_balance # v.current_balance

\* C8: the vendor a successful CreateVendor stores, and the one it returns, has status
\* pending_approval and current_balance 0.
C8_CreatedPendingWithZeroBalance ==
    [][ \A p \in Procs :
          (pc[p] = "create_insert" /\ pc'[p] = "idle" /\ res'[p].code = "OK")
          => /\ vendors' # vendors
             /\ \A r \in (vendors' \ vendors) \cup call'[p].vendor :
                    r.status = Str_pending_approval /\ r.current_balance = 0 ]_vars

\* a CreateVendor that carried a credit limit has succeeded
C8_Witness ==
    \E p \in Procs :
        /\ Finished(p, "CreateVendor") /\ res[p].code = "OK"
        /\ call[p].req.credit_limit = {1}
        /\ \E v \in call[p].vendor : \E r \in vendors : r.id = v.id

C10_WithinLimitIsValid ==
    \A p \in Procs :
        Finished(p, "ValidateVendor") =>
            \A v \in GetByID(call[p].req.id, call[p].req.entity_id, vendors) :
                (v.status = Str_active /\ \A l \in v.credit_limit : v.current_balance <= l)
                    => res[p].valid

\* a vendor carries this id and this entity_id together
Owned(id, entityID, vs) == \E r \in vs : r.id = id /\ r.entity_id = entityID

\* C11: one caller; a ValidateVendor call, whatever it returns, leaves every vendor and every
\* contact as it was, and leaves the ids the store hands out next as they were, so that the
\* calls that follow meet the state they would have met without it.
C11_ValidateVendorNoSideEffects ==
    [][ (calls' = calls + 1 /\ call'["p1"].op = "ValidateVendor")
        => /\ vendors' = vendors /\ contacts' = contacts
           /\ nextId' = nextId /\ nextContactId' = nextContactId ]_vars

\* ValidateVendor has answered "invalid" for a vendor that exists and has a contact
C11_Witness ==
    /\ Finished("p1", "ValidateVendor")
    /\ res["p1"].code = "OK" /\ ~res["p1"].valid
    /\ \E c \in contacts : c.vendor_id = call["p1"].req.id

\* C14: in every reachable state every vendor's country has exactly 2 characters and its
\* currency exactly 3, also after an UpdateVendor whose country or currency is shorter.
C14_CountryAndCurrencyLengths ==
    \A r \in vendors : Len(r.country) = 2 /\ Len(r.currency) = 3

\* C15: one caller; an UpdateVendor of an existing vendor whose vendor_code, upper-cased, is
\* the stored code of another vendor of the same entity ends with AlreadyExists and leaves
\* the vendors as they were, whatever the letter case of the code in the request.
C15_UpdateToTakenCodeAlreadyExists ==
    [][ ( /\ call'["p1"].op = "UpdateVendor"
          /\ pc'["p1"] = "idle"
          /\ (calls' = calls + 1 \/ pc["p1"] \in {"update_check", "update_write"})
          /\ Owned(call'["p1"].req.id, call'["p1"].req.entity_id, vendors)
          /\ \E r \in vendors : /\ r.id # call'["p1"].req.id
                                 /\ r.entity_id = call'["p1"].req.entity_id
                                 /\ r.vendor_code = ToUpper(call'["p1"].req.vendor_code) )
        => (res'["p1"].code = "AlreadyExists" /\ vendors' = vendors) ]_vars

\* C16: one caller; GetVendor, UpdateVendor, DeleteVendor, ActivateVendor, DeactivateVendor,
\* ValidateVendor and UpdateBalance, called with an id and an entity_id that no vendor
\* carries together (no vendor has the id, or the vendor with the id is of another entity),
\* return NotFound at once and leave every vendor and contact as it was.
C16_MissingOrForeignIdNotFound ==
    [][ ( /\ calls' = calls + 1
          /\ call'["p1"].op \in {"GetVendor", "UpdateVendor", "DeleteVendor", "ActivateVendor",
                                 "DeactivateVendor", "ValidateVendor", "UpdateBalance"}
          /\ ~Owned(call'["p1"].req.id, call'["p1"].req.entity_id, vendors) )
        => /\ pc'["p1"] = "idle"
           /\ res'["p1"].code = "NotFound"
           /\ vendors' = vendors /\ contacts' = contacts ]_vars

\* DeleteVendor has returned NotFound for the id of a vendor of another entity, which is
\* still stored
C16_Witness ==
    /\ Finished("p1", "DeleteVendor")
    /\ res["p1"].code = "NotFound"
    /\ \E r \in vendors : r.id = call["p1"].req.id /\ r.entity_id # call["p1"].req.entity_id

\* C12: ListVendors with active_only = TRUE and a status filter other than active, asked for
\* a first page that has room for every vendor, returns exactly the vendors of the entity
\* whose status is active, and a total that counts them.
C12_ActiveOnlyOverridesStatus ==
    ( /\ Finished("p1", "ListVendors")
      /\ call["p1"].req.active_only
      /\ call["p1"].req.status # {} /\ call["p1"].req.status # {Str_active}
      /\ call["p1"].req.page = 1 /\ call["p1"].req.page_size >= Cardinality(vendors) )
    => LET active == {r \in vendors : r.entity_id = call["p1"].req.entity_id /\ r.status = Str_active}
       IN /\ res["p1"].code = "OK"
          /\ res["p1"].rows = active
          /\ res["p1"].total = Cardinality(active)

\* C13: one caller through the gRPC adapter; a CreateVendor, UpdateVendor, DeleteVendor,
\* ActivateVendor, DeactivateVendor or UpdateBalance whose request names another entity
\* than the authenticated caller's is answered PermissionDenied and changes no vendor and
\* no contact.
C13_ForeignEntityPermissionDenied ==
    [][ ( /\ calls' = calls + 1
          /\ call'["p1"].op \in {"CreateVendor", "UpdateVendor", "DeleteVendor",
                                 "ActivateVendor", "DeactivateVendor", "UpdateBalance"}
          /\ \E u \in call'["p1"].req.ctx : u.entity_id # call'["p1"].req.entity_id )
        => /\ pc'["p1"] = "idle"
           /\ res'["p1"].code = "PermissionDenied"
           /\ vendors' = vendors /\ contacts' = contacts ]_vars

\* the entity of the vendor that contact c belongs to
ContactEntities(c, vs) == {v.entity_id : v \in {r \in vs : r.id = c.vendor_id}}

\* C17: one caller; a call made for entity e (the entity_id of a vendor request, the entity
\* the caller acts for in a contact request) adds, changes and removes only vendors of e
\* and contacts of vendors of e, and returns only such vendors and contacts.
C17_DataPartitionedByEntity ==
    [][ (pc'["p1"] = "idle" /\ call'["p1"].op # "none")
        => LET e == call'["p1"].req.entity_id IN
           /\ \A r \in (vendors \ vendors') \cup (vendors' \ vendors) \cup call'["p1"].vendor :
                  r.entity_id = e
           /\ \A c \in (contacts \ contacts') \cup (contacts' \ contacts) \cup res'["p1"].rows :
                  ContactEntities(c, vendors) \subseteq {e} ]_vars

C19_UniqueVendorTypeEmail ==
    \A c1, c2 \in contacts :
        ( /\ c1.vendor_id = c2.vendor_id
          /\ c1.contact_type = c2.contact_type
          /\ c1.email = c2.email ) => c1 = c2

\* C20: one caller; an AddVendorContact whose (vendor_id, lower-cased contact_type, email)
\* a stored contact already carries returns an error other than Internal, and adds no
\* contact.
C20_DuplicateContactIsConflict ==
    [][ ( /\ calls' = calls + 1 /\ call'["p1"].op = "AddVendorContact"
          /\ \E c \in contacts : /\ c.vendor_id = call'["p1"].req.vendor_id
                                  /\ c.contact_type = ToLower(call'["p1"].req.contact_type)
                                  /\ c.email # {} /\ c.email = call'["p1"].req.email )
        => /\ res'["p1"].code \in ErrorKinds \ {"Internal"}
           /\ contacts' = contacts ]_vars


\* C21: whenever a store call made by CreateVendor or UpdateVendor, the vendor-code lookup
\* included, fails with an error other than not-found, the operation ends there with that
\* error wrapped as Internal: no statement of it is left to run and the store is as before.
C21_StoreErrorStopsOperation ==
    [][faults' = faults + 1 =>
        /\ pc'["p1"] = "idle"
        /\ res'["p1"].code = "Internal"
        /\ vendors' = vendors]_vars


\* C22: a REST call whose service operation failed answers with the status of the error's
\* kind: 404 for NotFound, 409 for AlreadyExists, 400 for InvalidInput, 500 for Internal.
C22_StatusPerErrorKind ==
    \A op \in HTTPOps :
        (Finished("p1", op) /\ res["p1"].code \in ErrorKinds) =>
            HTTPStatus(op, res["p1"].code) =
                CASE res["p1"].code = "NotFound" -> 404
                  [] res["p1"].code = "AlreadyExists" -> 409
                  [] res["p1"].code = "InvalidInput" -> 400
                  [] res["p1"].code = "Internal" -> 500


\* C23: for a list request over REST or gRPC the service's ListVendors receives page >= 1
\* and 1 <= page_size <= 100, page_size being 50 when the caller gave none, and the offset
\* it computes is not negative.
C23_PagingClamped ==
    Finished("p1", "ListVendors") =>
        LET req == call["p1"].req IN
        /\ req.page >= 1
        /\ req.page_size >= 1 /\ req.page_size <= 100
        /\ (req.given.page_size = 0 => req.page_size = 50)
        /\ (req.page - 1) * req.page_size >= 0


\* C24: after a successful CreateVendor the stored vendor holds the request's vendor_code,
\* country and currency in upper case, its vendor_type in lower case, and every other
\* field of the request as given.
C24_CreateNormalisesCase ==
    (Finished("p1", "CreateVendor") /\ res["p1"].code = "OK") =>
        LET req == call["p1"].req IN
        \E v \in call["p1"].vendor : \E r \in vendors :
            /\ r.id = v.id
            /\ r.vendor_code = ToUpper(req.vendor_code)
            /\ r.country = ToUpper(req.country)
            /\ r.currency = ToUpper(req.currency)
            /\ r.vendor_type = ToLower(req.vendor_type)
            /\ r.entity_id = req.entity_id
            /\ r.vendor_name = req.vendor_name
            /\ r.credit_limit = req.credit_limit
            /\ r.created_by = {req.created_by}

\* a vendor was created from a request with a mixed-case type and is stored in lower case, its
\* lower-case code in upper case
C24_Witness ==
    /\ Finished("p1", "CreateVendor") /\ res["p1"].code = "OK"
    /\ call["p1"].req.vendor_type = Str_Supplier
    /\ call["p1"].req.vendor_code = Code_v1
    /\ \E r \in vendors : r.vendor_type = Str_supplier /\ r.vendor_code = Code_V1
                          /\ r.country = <<"U","S">> /\ r.currency = <<"U","S","D">>

\* C25: a CreateVendor whose (entity, code) pair no vendor holds and whose vendor_type is
\* not a valid type, whose currency is not 3 long, whose country is not 2 long or whose
\* credit_limit is negative ends at once with InvalidInput, and no vendor is created.
C25_InvalidCreateRejected ==
    [][(/\ calls' = calls + 1
        /\ call'["p1"].op = "CreateVendor"
        /\ LET req == call'["p1"].req IN
           /\ ~ \E r \in vendors : r.entity_id = req.entity_id /\ r.vendor_code = req.vendor_code
           /\ \/ ToLower(req.vendor_type) \notin vendor_type_enum
              \/ Len(req.currency) # 3
              \/ Len(req.country) # 2
              \/ \E l \in req.credit_limit : l < 0)
       => /\ pc'["p1"] = "idle"
          /\ res'["p1"].code = "InvalidInput"
          /\ vendors' = vendors]_vars

\* a request with a one-letter country, valid otherwise, was refused for its country while
\* another vendor exists
C25_Witness ==
    /\ Finished("p1", "CreateVendor")
    /\ res["p1"].code = "InvalidInput" /\ res["p1"].field = "country"
    /\ Len(call["p1"].req.country) = 1
    /\ vendors # {}
    /\ ~ KeyTaken(call["p1"].req, vendors)


\* the request's vendor_type or status, lower-cased, is outside its enumeration, or its
\* credit_limit is present and negative
UpdateFaulty(req) ==
    \/ ToLower(req.vendor_type) \notin vendor_type_enum
    \/ ToLower(req.status) \notin vendor_status_enum
    \/ \E l \in req.credit_limit : l < 0

\* slot p1's UpdateVendor has failed with InvalidInput for a field of the request that is at
\* fault, and the vendor it fetched is stored as it was
RefusedForField ==
    /\ res["p1"].code = "InvalidInput"
    /\ \/ res["p1"].field = "vendor_type" /\ ToLower(call["p1"].req.vendor_type) \notin vendor_type_enum
       \/ res["p1"].field = "status" /\ ToLower(call["p1"].req.status) \notin vendor_status_enum
       \/ res["p1"].field = "credit_limit" /\ \E l \in call["p1"].req.credit_limit : l < 0
    /\ call["p1"].vendor \subseteq vendors

\* C26 as stated: an UpdateVendor on an existing vendor whose vendor_type or status is
\* outside its enumeration, or whose credit_limit is negative, fails with InvalidInput for
\* the offending field and leaves the stored vendor unchanged.
C26_InvalidUpdateRejected ==
    (/\ Finished("p1", "UpdateVendor")
     /\ call["p1"].vendor # {}
     /\ UpdateFaulty(call["p1"].req))
    => RefusedForField

\* C26 amended: the same, for a request whose vendor_code is the vendor's stored code or is
\* the code of no vendor of the entity.
C26_InvalidUpdateRejectedUnlessCodeTaken ==
    (/\ Finished("p1", "UpdateVendor")
     /\ call["p1"].vendor # {}
     /\ UpdateFaulty(call["p1"].req)
     /\ \A v \in call["p1"].vendor :
            \/ call["p1"].req.vendor_code = v.vendor_code
            \/ ~ \E r \in vendors : /\ r.entity_id = call["p1"].req.entity_id
                                    /\ r.vendor_code = call["p1"].req.vendor_code)
    => RefusedForField

\* an update that changes the code to a free one and names a status outside the list was
\* refused for its status
C26_Witness ==
    /\ Finished("p1", "UpdateVendor")
    /\ call["p1"].req.status = Str_closed
    /\ \E v \in call["p1"].vendor : v.vendor_code # call["p1"].req.vendor_code
    /\ res["p1"].code = "InvalidInput" /\ res["p1"].field = "status"
    /\ call["p1"].vendor \subseteq vendors


\* slot p's ActivateVendor or DeactivateVendor writes in this step and succeeds
SetStatusWrites(p) ==
    /\ pc[p] \in {"activate_write", "deactivate_write"}
    /\ pc'[p] = "idle"
    /\ res'[p].code = "OK"

\* the status that operation op sets
StatusSetBy(op) == IF op = "ActivateVendor" THEN Str_active ELSE Str_inactive

UpdatedFields(r) ==
    <<r.vendor_code, r.vendor_name, r.vendor_type, r.country, r.currency, r.credit_limit>>

\* C28: when slot p's ActivateVendor / DeactivateVendor writes while the stored vendor holds
\* the values of another slot's finished UpdateVendor, the vendor holds them after the
\* write too, in every field but status and updated_by.
C28_SetStatusKeepsConcurrentUpdate ==
    [][\A p \in Procs : \A q \in Procs \ {p} :
        (/\ SetStatusWrites(p)
         /\ Finished(q, "UpdateVendor") /\ res[q].code = "OK"
         /\ call[q].req.id = call[p].req.id
         /\ \E r \in vendors : \E u \in call[q].vendor :
                r.id = u.id /\ UpdatedFields(r) = UpdatedFields(u))
        => \E r \in vendors' : \E u \in call[q].vendor :
                r.id = u.id /\ UpdatedFields(r) = UpdatedFields(u)]_vars


\* C29: the credit limit of a create or update request, 0 included, reaches CreateVendor /
\* UpdateVendor as a present limit over either adapter, never as an absent one.
C29_CreditLimitReachesService ==
    \A op \in {"CreateVendor", "UpdateVendor"} :
        Finished("p1", op) => call["p1"].req.credit_limit # {}


\* C30: no step changes the id, the entity_id or the created_by of a vendor: a vendor that
\* is stored before and after a step has the same entity and creator, and a step that
\* neither inserts nor deletes a vendor leaves the set of ids as it was.
C30_IdentityNeverChanges ==
    [][/\ \A r \in vendors : \A r2 \in vendors' :
              r2.id = r.id => (r2.entity_id = r.entity_id /\ r2.created_by = r.created_by)
       /\ Cardinality(vendors') = Cardinality(vendors) =>
              {r.id : r \in vendors'} = {r.id : r \in vendors}]_vars

\* a vendor whose code was changed by UpdateVendor and whose balance was raised by
\* UpdateBalance still has its id, entity and creator
C30_Witness ==
    \E r \in vendors :
        /\ r.vendor_code = Code_V2 /\ r.updated_by = {"u2"}
        /\ r.current_balance > 0
        /\ r.id = 1 /\ r.entity_id = "e1" /\ r.created_by = {"u1"}

===========================================================================
